---- MODULE Spec2Model ----
(***************************************************************************)
(* Food package extractor: barcode-first, OCR-fallback request handling    *)
(* (backend/main.py), the OpenFoodFacts lookup and schema mapper           *)
(* (backend/barcode_service.py), the field extractor                       *)
(* (backend/text_processor.py), the multi-pass recognition engine          *)
(* (backend/ocr_service_advanced.py) and the quality assessor              *)
(* (backend/image_processor_advanced.py).                                  *)
(*                                                                         *)
(* Text is a sequence of lexemes (TLA+ strings): keywords, single digits,  *)
(* punctuation and white space are one lexeme each.  Python's None is the  *)
(* empty set and a present value x is {x}.                                 *)
(***************************************************************************)
EXTENDS Integers, Sequences, FiniteSets, TLC

VARIABLES
    pc,               \* position of upload_image in the orchestrator
    upload,           \* the request: content type and bytes of the uploaded file
    image,            \* decoded raster of the request (None before decoding)
    barcode,          \* value returned by detect_barcode
    lookup,           \* which branch get_product_info took
    barcode_data,     \* value returned by scan_and_fetch
    processed_image,  \* value returned by image_processor.preprocess
    raw_text,         \* value returned by ocr_service.extract_text
    response,         \* what the handler gave back to the caller
    calls,            \* how often each stage was invoked in this request
    r_pc,             \* position of extract_text_robust
    r_jobs,           \* (method_name, psm) pairs still to run, in loop order
    results,          \* the list extract_text_robust accumulates
    r_out,            \* value returned by extract_text_robust
    q_image,          \* raster handed to check_image_quality (its measurements)
    q_report,         \* value returned by check_image_quality
    f_name,           \* the function called on its own, "idle" before the call
    f_arg,            \* the argument it is called with
    f_ret             \* the value it returned

orchVars == <<pc, upload, image, barcode, lookup, barcode_data, processed_image, raw_text, response, calls>>
robustVars == <<r_pc, r_jobs, results, r_out>>
qualVars == <<q_image, q_report>>
callVars == <<f_name, f_arg, f_ret>>
vars == <<pc, upload, image, barcode, lookup, barcode_data, processed_image, raw_text, response, calls, r_pc, r_jobs, results, r_out, q_image, q_report, f_name, f_arg, f_ret>>

----------------------------------------------------------------------------
(* Python values *)

None == {}
Some(x) == {x}
Get(o) == CHOOSE x \in o : TRUE

\* truthiness of an optional number, string (TLA+ string) and text (lexemes)
TruthyNum(o) == o # None /\ Get(o) # 0
TruthyStr(o) == o # None /\ Get(o) # ""
TruthyText(o) == o # None /\ Get(o) # <<>>

\* a or b
OrNum(a, b) == IF TruthyNum(a) THEN a ELSE b
OrStr(a, b) == IF TruthyStr(a) THEN a ELSE b
\* b or a
OrText_second_first(a, b) == IF TruthyText(b) THEN b ELSE a
OrText(a, b) == IF TruthyText(a) THEN a ELSE b

Min(a, b) == IF a < b THEN a ELSE b
Max(a, b) == IF a > b THEN a ELSE b

----------------------------------------------------------------------------
(* Strings as lexeme sequences *)

WhiteSpace == {" ", "\n", "\t"}

RECURSIVE LStrip(_)
LStrip(s) == IF s # <<>> /\ Head(s) \in WhiteSpace THEN LStrip(Tail(s)) ELSE s

RECURSIVE RStrip(_)
RStrip(s) ==
    IF s # <<>> /\ s[Len(s)] \in WhiteSpace THEN RStrip(SubSeq(s, 1, Len(s) - 1)) ELSE s

\* str.strip()
Strip(s) == RStrip(LStrip(s))

\* s[:n]
Take(s, n) == SubSeq(s, 1, Min(Len(s), n))

\* s.split(sep) for a one-lexeme separator set: the pieces between separators
RECURSIVE SplitOn(_, _, _)
SplitOn(s, seps, cur) ==
    IF s = <<>> THEN <<cur>>
    ELSE IF Head(s) \in seps THEN <<cur>> \o SplitOn(Tail(s), seps, <<>>)
    ELSE SplitOn(Tail(s), seps, Append(cur, Head(s)))

\* s.replace(old, new) for one-lexeme old; new is a lexeme sequence
RECURSIVE Replace(_, _, _)
Replace(s, old, new) ==
    IF s = <<>> THEN <<>>
    ELSE (IF Head(s) = old THEN new ELSE <<Head(s)>>) \o Replace(Tail(s), old, new)

RECURSIVE MapSeq(_, _)
MapSeq(Op(_), s) == IF s = <<>> THEN <<>> ELSE <<Op(Head(s))>> \o MapSeq(Op, Tail(s))

RECURSIVE FilterSeq(_, _)
FilterSeq(Keep(_), s) ==
    IF s = <<>> THEN <<>>
    ELSE (IF Keep(Head(s)) THEN <<Head(s)>> ELSE <<>>) \o FilterSeq(Keep, Tail(s))

----------------------------------------------------------------------------
(* backend/barcode_service.py *)

\* the result of a call: a value, or an exception on its way up
Raise(t) == [exc |-> TRUE, type |-> t, val |-> None]
Return(v) == [exc |-> FALSE, type |-> "", val |-> v]

BoundedSeq(S, n) == UNION {[1..k -> S] : k \in 0..n}

\* bytes of a decoded symbol that are not valid UTF-8
BadUtf8 == "\\xff\\xfe"

\* detect_barcode, the body of its try block: scan is what cvtColor and
\* pyzbar.decode did on the raster
detect_barcode_try(scan) ==
    IF scan.kind = "error" THEN Raise("cv2.error")
    ELSE IF scan.codes # <<>>
         THEN IF scan.codes[1] = BadUtf8
              THEN Raise("UnicodeDecodeError")
              ELSE Return(Some(scan.codes[1]))
         ELSE Return(None)

detect_barcode(scan) ==
    LET r == detect_barcode_try(scan)
    IN  IF r.exc THEN None ELSE r.val

\* dict.get(key) on the nutriments map
NutGet(m, k) == IF k \in DOMAIN m THEN Some(m[k]) ELSE None

nutrient_map ==
    [protein |-> <<"proteins_100g", "proteins">>,
     fat |-> <<"fat_100g", "fat">>,
     saturated_fat |-> <<"saturated-fat_100g", "saturated-fat">>,
     carbohydrates |-> <<"carbohydrates_100g", "carbohydrates">>,
     sugars |-> <<"sugars_100g", "sugars">>,
     fiber |-> <<"fiber_100g", "fiber">>,
     sodium |-> <<"sodium_100g", "sodium">>,
     salt |-> <<"salt_100g", "salt">>]

\* first key of keys that the map holds
RECURSIVE FirstKey(_, _)
FirstKey(m, keys) ==
    IF keys = <<>> THEN None
    ELSE IF Head(keys) \in DOMAIN m THEN Some(Head(keys))
    ELSE FirstKey(m, Tail(keys))

BarcodeService_extract_nutrition_facts(nutriments) ==
    LET hit == {n \in DOMAIN nutrient_map : FirstKey(nutriments, nutrient_map[n]) # None}
    IN  [n \in hit |->
            [value |-> nutriments[Get(FirstKey(nutriments, nutrient_map[n]))],
             unit |-> IF n \in {"sodium", "salt"} THEN "mg" ELSE "g"]]

\* tag.replace('en:', '').replace('-', ' ')
NormalizeTag(tag) == Replace(Replace(tag, "en:", <<>>), "-", <<" ">>)

\* the split at commas only
SplitIngredients_comma_only(text) == MapSeq(Strip, SplitOn(text, {","}, <<>>))

\* ingredients_text.replace(';', ',').split(','), each piece stripped
SplitIngredients(text) == MapSeq(Strip, SplitOn(Replace(text, ";", <<",">>), {","}, <<>>))

_extract_product_data(product) ==
    IF product.nutriments.t = "null" THEN Raise("AttributeError")
    ELSE IF product.allergens_tags.t = "null" THEN Raise("TypeError")
    ELSE
    LET nutriments == IF product.nutriments.t = "absent" THEN << >> ELSE product.nutriments.m
        calories_value == OrNum(NutGet(nutriments, "energy-kcal_100g"), NutGet(nutriments, "energy-kcal"))
        calories_serving == NutGet(nutriments, "energy-kcal_serving")
        serving_size == OrStr(product.serving_size, product.serving_quantity)
        ingredients_text == OrText(product.ingredients_text, product.ingredients_text_tr)
        ingredients_list == IF TruthyText(ingredients_text)
                            THEN SplitIngredients(Get(ingredients_text))
                            ELSE <<>>
        allergens_tags == IF product.allergens_tags.t = "absent" THEN <<>> ELSE product.allergens_tags.l
        allergens_list == MapSeq(NormalizeTag, allergens_tags)
    IN  Return(Some(
        [source |-> "openfoodfacts",
         barcode |-> product.code,
         product_name |-> OrStr(product.product_name, product.product_name_tr),
         brands |-> product.brands,
         categories |-> product.categories,
         image_url |-> product.image_url,
         calories |-> [value |-> calories_value,
                       value_serving |-> calories_serving,
                       unit |-> "kcal",
                       found |-> calories_value # None],
         serving_size |-> [value |-> serving_size,
                           found |-> serving_size # None],
         ingredients |-> [list |-> ingredients_list,
                          raw |-> ingredients_text,
                          found |-> TruthyText(ingredients_text)],
         nutrition_facts |-> BarcodeService_extract_nutrition_facts(nutriments),
         allergens |-> [list |-> allergens_list,
                        found |-> allergens_list # <<>>],
         labels |-> IF product.labels_tags.t = "absent" THEN Some(<<>>)
                    ELSE IF product.labels_tags.t = "null" THEN None
                    ELSE Some(product.labels_tags.l),
         nova_group |-> product.nova_group,
         nutriscore_grade |-> product.nutriscore_grade]))

\* truthiness of data.get('product')
ProductTruthy(p) == p.t \in {"string", "dict"}

\* get_product_info's try block without the test of data.get('status')
get_product_info_try_any_status(http) ==
    IF http.kind = "timeout" THEN Raise("Timeout")
    ELSE IF http.kind = "error" THEN Raise("ConnectionError")
    ELSE IF http.status_code = 200
    THEN IF http.body.json = "invalid" THEN Raise("JSONDecodeError")
         ELSE IF http.body.json = "list" THEN Raise("AttributeError")
         ELSE IF ProductTruthy(http.body.product)
              THEN IF http.body.product.t = "string"
                   THEN Raise("AttributeError")
                   ELSE _extract_product_data(http.body.product.p)
              ELSE Return(None)
    ELSE Return(None)

\* get_product_info, the body of its try block: http is what requests.get did
get_product_info_try(http) ==
    IF http.kind = "timeout" THEN Raise("Timeout")
    ELSE IF http.kind = "error" THEN Raise("ConnectionError")
    ELSE IF http.status_code = 200
    THEN IF http.body.json = "invalid" THEN Raise("JSONDecodeError")
         ELSE IF http.body.json = "list" THEN Raise("AttributeError")
         ELSE IF http.body.status = Some(1) /\ ProductTruthy(http.body.product)
              THEN IF http.body.product.t = "string"
                   THEN Raise("AttributeError")
                   ELSE _extract_product_data(http.body.product.p)
              ELSE Return(None)
    ELSE Return(None)

\* get_product_info without its except clauses
get_product_info_uncaught(http) == get_product_info_try(http)

\* except requests.exceptions.Timeout / except Exception: return None
get_product_info(http) ==
    LET r == get_product_info_try(http)
    IN  IF r.exc THEN Return(None) ELSE r

\* scan_and_fetch: what it returns, or the exception that leaves it
scan_and_fetch(scan, http) ==
    IF TruthyStr(detect_barcode(scan)) THEN get_product_info(http) ELSE Return(None)

\* which outcome of the lookup this is (the log line get_product_info writes)
LookupKind(http) ==
    IF http.kind = "timeout" THEN "timeout"
    ELSE IF http.kind = "error" THEN "error"
    ELSE IF http.status_code # 200 THEN "bad_status"
    ELSE IF http.body.json # "dict" THEN "malformed"
    ELSE IF http.body.status # Some(1) THEN "status_not_1"
    ELSE IF ~ProductTruthy(http.body.product) THEN "no_product"
    ELSE IF get_product_info_try(http).exc THEN "mapping_error"
    ELSE "match"

----------------------------------------------------------------------------
(* Regular expressions over lexemes.  A pattern is a sequence of elements;  *)
(* an element matches lexemes whose lower-case form is in cls: exactly one  *)
(* (min 1), at most one (min 0), or a greedy run (many).  Elements with cap *)
(* make up group 1.  Matching is re's: leftmost start, greedy, backtracking.*)

Digits == {"0", "1", "2", "3", "4", "5", "6", "7", "8", "9"}

DigitValue(d) ==
    CASE d = "0" -> 0 [] d = "1" -> 1 [] d = "2" -> 2 [] d = "3" -> 3 [] d = "4" -> 4
      [] d = "5" -> 5 [] d = "6" -> 6 [] d = "7" -> 7 [] d = "8" -> 8 [] d = "9" -> 9

\* the characters _clean_text keeps besides word characters and white space
KeptPunctuation == {".", ",", ":", ";", "-", "(", ")", "%", "/"}

\* characters _clean_text removes
Specials == {"*", "|", "!", "#"}

LowerWords ==
    {"calories", "calorie", "caloric", "value", "energy", "kcal", "cal",
     "serving", "size", "portion", "per", "g", "mg", "ml", "oz", "cup",
     "ingredients", "ingredient", "contains", "contain", "may", "allergens", "allergen",
     "protein", "proteins", "total", "fat", "fats", "carbohydrate", "carbohydrates",
     "carbs", "carb", "sugars", "sugar", "dietary", "fiber", "fibre", "sodium", "salt",
     "milk", "eggs", "fish", "shellfish", "tree", "nuts", "peanuts", "wheat",
     "soybeans", "soy", "gluten", "sesame", "mustard", "water", "flour", "from"}

\* str.lower() on the capitalised lexemes of the model
Lower(l) ==
    CASE l = "Calories" -> "calories" [] l = "Energy" -> "energy"
      [] l = "Serving" -> "serving" [] l = "Size" -> "size"
      [] l = "Ingredients" -> "ingredients" [] l = "Contains" -> "contains"
      [] l = "Wheat" -> "wheat" [] l = "Sugar" -> "sugar" [] l = "Salt" -> "salt"
      [] l = "Milk" -> "milk" [] l = "INGREDIENTS" -> "ingredients"
      [] OTHER -> l

CapitalWords ==
    {"Calories", "Energy", "Serving", "Size", "Ingredients", "Contains", "Wheat",
     "Sugar", "Salt", "Milk", "INGREDIENTS"}

\* every lower-case lexeme
LowerLexemes == LowerWords \cup Digits \cup KeptPunctuation \cup Specials \cup WhiteSpace

\* \w lexemes
WordLexemes == LowerWords \cup Digits

\* \s and [^\n]
S == WhiteSpace
NotNL == LowerLexemes \ {"\n"}

\* lexemes that begin with kcal or cal, with g, with mg or g, with g, ml, oz or cup
StartsKcalCal == {"kcal", "cal", "calories", "calorie", "caloric"}
StartsG == {"g", "gluten"}
StartsMgG == {"mg", "g", "gluten"}
StartsUnit == {"g", "ml", "oz", "cup", "gluten"}

\* the part of a lexeme that a trailing (?:g|ml|oz|cup) consumes
UnitPrefix(l) == IF l = "gluten" THEN "g" ELSE l

One(cls) == [cls |-> cls, min |-> 1, many |-> FALSE, cap |-> FALSE, pre |-> FALSE]
Opt1(cls) == [cls |-> cls, min |-> 0, many |-> FALSE, cap |-> FALSE, pre |-> FALSE]
Star(cls) == [cls |-> cls, min |-> 0, many |-> TRUE, cap |-> FALSE, pre |-> FALSE]
Plus(cls) == [cls |-> cls, min |-> 1, many |-> TRUE, cap |-> FALSE, pre |-> FALSE]
Cap(e) == [e EXCEPT !.cap = TRUE]
CapPre(e) == [e EXCEPT !.cap = TRUE, !.pre = TRUE]

\* how many lexemes from pos on are in cls
RECURSIVE RunLength(_, _, _)
RunLength(t, pos, cls) ==
    IF pos <= Len(t) /\ Lower(t[pos]) \in cls THEN 1 + RunLength(t, pos + 1, cls) ELSE 0

RECURSIVE MatchFrom(_, _, _, _, _)
RECURSIVE TryCount(_, _, _, _, _, _)

\* match elements i.. of pat at pos: None, or the end of the match and group 1
MatchFrom(pat, i, t, pos, cap) ==
    IF i > Len(pat) THEN Some([end |-> pos, group |-> cap])
    ELSE LET run == RunLength(t, pos, pat[i].cls)
         IN  TryCount(pat, i, t, pos, cap, IF pat[i].many THEN run ELSE Min(run, 1))

\* let element i take c lexemes, then c-1, ... down to its minimum
TryCount(pat, i, t, pos, cap, c) ==
    IF c < pat[i].min THEN None
    ELSE LET taken == SubSeq(t, pos, pos + c - 1)
             cap2 == IF ~pat[i].cap THEN cap
                     ELSE IF pat[i].pre THEN cap \o MapSeq(UnitPrefix, taken)
                     ELSE cap \o taken
             r == MatchFrom(pat, i + 1, t, pos + c, cap2)
         IN  IF r # None THEN r ELSE TryCount(pat, i, t, pos, cap, c - 1)

\* the alternatives alts tried in order at pos
RECURSIVE MatchAlts(_, _, _)
MatchAlts(alts, t, pos) ==
    IF alts = <<>> THEN None
    ELSE LET r == MatchFrom(Head(alts), 1, t, pos, <<>>)
         IN  IF r # None THEN r ELSE MatchAlts(Tail(alts), t, pos)

\* re.search of an alternation: the first position where an alternative matches
RECURSIVE SearchFrom(_, _, _)
SearchFrom(alts, t, pos) ==
    IF pos > Len(t) THEN None
    ELSE LET r == MatchAlts(alts, t, pos)
         IN  IF r # None THEN r ELSE SearchFrom(alts, t, pos + 1)

Search(pat, t) == SearchFrom(<<pat>>, t, 1)
SearchAlts(alts, t) == SearchFrom(alts, t, 1)

----------------------------------------------------------------------------
(* backend/text_processor.py *)

\* \s* :? \s*
Sep == <<Star(S), Opt1({":"}), Star(S)>>

\* (\d+\.?\d*)
Number == <<Cap(Plus(Digits)), Cap(Opt1({"."})), Cap(Star(Digits))>>

calorie_patterns ==
    << <<One({"calories", "calorie"})>> \o Sep \o <<Cap(Plus(Digits))>>,
       <<One({"energy"})>> \o Sep \o <<Cap(Plus(Digits)), Star(S), One(StartsKcalCal)>>,
       <<Cap(Plus(Digits)), Star(S), One(StartsKcalCal)>>,
       <<One({"caloric"}), Plus(S), One({"value"})>> \o Sep \o <<Cap(Plus(Digits))>> >>

serving_patterns ==
    << <<One({"serving"}), Plus(S), One({"size"})>> \o Sep \o <<Cap(Plus(NotNL))>>,
       <<One({"portion"})>> \o Sep \o <<Cap(Plus(NotNL))>>,
       <<One({"per"}), Plus(S), Cap(Plus(Digits)), Cap(Star(S)), CapPre(One(StartsUnit))>> >>

\* the head of the first ingredient pattern (up to the end of the first
\* captured line) and the second pattern
ingredient_patterns ==
    << <<One({"ingredients", "ingredient"})>> \o Sep \o <<Cap(Plus(NotNL))>>,
       <<One({"contains", "contain"})>> \o Sep \o <<Cap(Plus(NotNL))>> >>

\* (?![A-Z]{2,}) under IGNORECASE: the next lexeme starts with two letters
TwoLetters == LowerWords \ {"g"}

\* (?:\n(?![A-Z]{2,})[^\n]+)* after a match that ended at pos: the
\* continuation lines the group takes as well
RECURSIVE ContinuationLines(_, _)
ContinuationLines(t, pos) ==
    IF pos + 1 <= Len(t) /\ t[pos] = "\n" /\ Lower(t[pos + 1]) \in NotNL
       /\ Lower(t[pos + 1]) \notin TwoLetters
    THEN LET n == RunLength(t, pos + 1, NotNL)
         IN  SubSeq(t, pos, pos + n) \o ContinuationLines(t, pos + n + 1)
    ELSE <<>>

\* text.lower()
LowerText(t) == MapSeq(Lower, t)

\* re.sub(r'\s+', ' ', text)
RECURSIVE CollapseWhiteSpace(_)
CollapseWhiteSpace(t) ==
    IF t = <<>> THEN <<>>
    ELSE IF Head(t) \in WhiteSpace
         THEN <<" ">> \o CollapseWhiteSpace(SubSeq(t, 1 + RunLength(t, 1, WhiteSpace), Len(t)))
         ELSE <<Head(t)>> \o CollapseWhiteSpace(Tail(t))

NotSpecial(l) == l \notin Specials

_clean_text(text) == Strip(FilterSeq(NotSpecial, CollapseWhiteSpace(text)))

\* int() of a run of digits
RECURSIVE ParseInt(_, _)
ParseInt(ds, acc) ==
    IF ds = <<>> THEN acc ELSE ParseInt(Tail(ds), acc * 10 + DigitValue(Head(ds)))

RECURSIVE DropTrailingZeros(_)
DropTrailingZeros(ds) ==
    IF ds # <<>> /\ ds[Len(ds)] = "0" THEN DropTrailingZeros(SubSeq(ds, 1, Len(ds) - 1)) ELSE ds

\* float() of digits, an optional point and digits: the whole part and the
\* significant fractional digits
ParseFloat(num) ==
    LET w == RunLength(num, 1, Digits)
    IN  [whole |-> ParseInt(SubSeq(num, 1, w), 0),
         frac |-> DropTrailingZeros(SubSeq(num, w + 2, Len(num)))]

\* the last pattern of pats that matches t
RECURSIVE FirstMatch_last(_, _, _)
FirstMatch_last(pats, i, t) ==
    IF i > Len(pats) THEN None
    ELSE LET later == FirstMatch_last(pats, i + 1, t)
             m == Search(pats[i], t)
         IN  IF later # None THEN later
             ELSE IF m # None THEN Some([pattern |-> i, end |-> Get(m).end, group |-> Get(m).group])
             ELSE None

\* the first pattern of pats (from index i) that matches t
RECURSIVE FirstMatch(_, _, _)
FirstMatch(pats, i, t) ==
    IF i > Len(pats) THEN None
    ELSE LET m == Search(pats[i], t)
         IN  IF m # None THEN Some([pattern |-> i, end |-> Get(m).end, group |-> Get(m).group])
             ELSE FirstMatch(pats, i + 1, t)

_extract_calories(text) ==
    LET m == FirstMatch(calorie_patterns, 1, LowerText(text))
    IN  IF m # None
        THEN [value |-> Some(ParseInt(Get(m).group, 0)), unit |-> "kcal", found |-> TRUE]
        ELSE [value |-> None, unit |-> "kcal", found |-> FALSE]

_extract_serving_size(text) ==
    LET m == FirstMatch(serving_patterns, 1, LowerText(text))
    IN  IF m # None
        THEN [value |-> Some(Strip(Get(m).group)), found |-> TRUE]
        ELSE [value |-> None, found |-> FALSE]

NonEmpty(s) == s # <<>>

_extract_ingredients(text) ==
    LET m == FirstMatch(ingredient_patterns, 1, text)
    IN  IF m # None
        THEN LET span == IF Get(m).pattern = 1
                         THEN Get(m).group \o ContinuationLines(text, Get(m).end)
                         ELSE Get(m).group
                 ingredients_text == Strip(span)
                 ingredient_list == FilterSeq(NonEmpty,
                                        MapSeq(Strip, SplitOn(ingredients_text, {",", ";"}, <<>>)))
             IN  [list |-> ingredient_list, raw |-> Some(ingredients_text), found |-> TRUE]
        ELSE [list |-> <<>>, raw |-> None, found |-> FALSE]

\* nutrient -> its patterns in order; a pattern with an optional leading
\* group is the alternation of its two forms
nutrients ==
    [protein |->
        << << <<One({"protein"})>> \o Sep \o Number \o <<Star(S), One(StartsG)>> >>,
           << <<One({"protein", "proteins"}), Star(S)>> \o Number >> >>,
     fat |->
        << << <<One({"total"}), Plus(S), One({"fat"})>> \o Sep \o Number \o <<Star(S), One(StartsG)>>,
              <<One({"fat"})>> \o Sep \o Number \o <<Star(S), One(StartsG)>> >>,
           << <<One({"fat", "fats"}), Star(S)>> \o Number >> >>,
     carbohydrates |->
        << << <<One({"total"}), Plus(S), One({"carbohydrate"})>> \o Sep \o Number \o <<Star(S), One(StartsG)>>,
              <<One({"carbohydrate"})>> \o Sep \o Number \o <<Star(S), One(StartsG)>> >>,
           << <<One({"carb", "carbs"}), Star(S)>> \o Number >> >>,
     sugar |->
        << << <<One({"sugar", "sugars"})>> \o Sep \o Number \o <<Star(S), One(StartsG)>> >>,
           << <<One({"sugar"}), Star(S)>> \o Number >> >>,
     fiber |->
        << << <<One({"dietary"}), Plus(S), One({"fiber"})>> \o Sep \o Number \o <<Star(S), One(StartsG)>>,
              <<One({"fiber"})>> \o Sep \o Number \o <<Star(S), One(StartsG)>> >>,
           << <<One({"fibre"}), Star(S)>> \o Number >> >>,
     sodium |->
        << << <<One({"sodium"})>> \o Sep \o Number \o <<Star(S), One(StartsMgG)>> >>,
           << <<One({"salt"}), Star(S)>> \o Number >> >> ]

\* the first of a nutrient's patterns that matches
RECURSIVE FirstNutrientMatch(_, _, _)
FirstNutrientMatch(pats, i, t) ==
    IF i > Len(pats) THEN None
    ELSE LET m == SearchAlts(pats[i], t)
         IN  IF m # None THEN m ELSE FirstNutrientMatch(pats, i + 1, t)

TextProcessor_extract_nutrition_facts(text) ==
    LET text_lower == LowerText(text)
        hit == {n \in DOMAIN nutrients : FirstNutrientMatch(nutrients[n], 1, text_lower) # None}
    IN  [n \in hit |->
            [value |-> ParseFloat(Get(FirstNutrientMatch(nutrients[n], 1, text_lower)).group),
             unit |-> IF n # "sodium" THEN "g" ELSE "mg"]]

common_allergens ==
    <<"milk", "eggs", "fish", "shellfish", "tree nuts", "peanuts",
      "wheat", "soybeans", "soy", "gluten", "sesame", "mustard">>

\* the vocabulary terms a lexeme holds as substrings
SubTerms(l) ==
    IF l = "shellfish" THEN {"shellfish", "fish"}
    ELSE IF l = "soybeans" THEN {"soybeans", "soy"}
    ELSE {l}

\* allergen in allergen_text
AllergenIn(allergen, t) ==
    IF allergen = "tree nuts"
    THEN \E k \in 1..(Len(t) - 2) : t[k] = "tree" /\ t[k + 1] = " " /\ t[k + 2] = "nuts"
    ELSE \E k \in 1..Len(t) : allergen \in SubTerms(t[k])

\* \b at the left of position k and at the right of position k
BoundaryBefore(t, k) == k = 1 \/ t[k - 1] \notin WordLexemes
BoundaryAfter(t, k) == k = Len(t) \/ t[k + 1] \notin WordLexemes

\* re.search(r'\b' + allergen + r'\b', text_lower)
AllergenWord(allergen, t) ==
    IF allergen = "tree nuts"
    THEN \E k \in 1..(Len(t) - 2) :
            /\ t[k] = "tree" /\ t[k + 1] = " " /\ t[k + 2] = "nuts"
            /\ BoundaryBefore(t, k) /\ BoundaryAfter(t, k + 2)
    ELSE \E k \in 1..Len(t) : t[k] = allergen /\ BoundaryBefore(t, k) /\ BoundaryAfter(t, k)

allergen_section_pattern ==
    << <<One({"contains", "contain"})>> \o Sep \o <<Cap(Plus(NotNL))>>,
       <<One({"allergens", "allergen"})>> \o Sep \o <<Cap(Plus(NotNL))>>,
       <<One({"may"}), One({" "}), One({"contain", "contains"})>> \o Sep \o <<Cap(Plus(NotNL))>> >>

\* found_allergens, in vocabulary order
found_allergens(text) ==
    LET text_lower == LowerText(text)
        allergen_section == SearchAlts(allergen_section_pattern, text_lower)
        Hit(a) == IF allergen_section # None
                  THEN AllergenIn(a, Get(allergen_section).group)
                  ELSE AllergenWord(a, text_lower)
    IN  FilterSeq(Hit, common_allergens)

Range(s) == {s[i] : i \in DOMAIN s}

\* list(set(xs)): the elements of xs once each, in an order the runtime picks
ListsOfSet(xs) ==
    {l \in [1..Cardinality(Range(xs)) -> Range(xs)] : Range(l) = Range(xs)}

\* _extract_allergens: order is the order list(set(...)) produced
_extract_allergens(text, order) ==
    [list |-> order, found |-> Len(found_allergens(text)) > 0]

\* the records extract_food_data can return for text
extract_food_data(text) ==
    LET cleaned_text == _clean_text(text)
    IN  {[calories |-> _extract_calories(cleaned_text),
          serving_size |-> _extract_serving_size(cleaned_text),
          ingredients |-> _extract_ingredients(cleaned_text),
          nutrition_facts |-> TextProcessor_extract_nutrition_facts(cleaned_text),
          allergens |-> _extract_allergens(cleaned_text, order)]
         : order \in ListsOfSet(found_allergens(cleaned_text))}

----------------------------------------------------------------------------
(* backend/main.py: upload_image *)

MaxTextLen == 3
MaxCodes == 2
MaxTags == 2

\* file.content_type of the upload
ContentTypes == {None, Some("image/png"), Some("text/plain")}

\* content_type.startswith('image/')
IsImageType(ct) == Get(ct) = "image/png"

\* the uploaded bytes: nothing, bytes that are no image, an encoded image
Contents == {"empty", "garbage", "image"}

\* cv2.imdecode(np.frombuffer(contents)): OpenCV asserts on an empty buffer,
\* returns None for bytes it cannot decode and the raster otherwise
imdecode(contents) ==
    IF contents = "empty" THEN Raise("cv2.error")
    ELSE IF contents = "garbage" THEN Return(None)
    ELSE Return(Some("raster"))

\* what barcode detection can do on a raster
BarcodeData == {"", "8690504", BadUtf8}
Scans == {[kind |-> "error", codes |-> <<>>]}
         \cup {[kind |-> "codes", codes |-> c] : c \in BoundedSeq(BarcodeData, MaxCodes)}

\* products of the database
NutKeysIn == {"energy-kcal_100g", "energy-kcal", "energy-kcal_serving", "proteins_100g", "proteins"}
NutVals == {0, 120}
NutMaps == UNION {[K -> NutVals] : K \in SUBSET NutKeysIn}
Tags == {<<"en:", "milk">>, <<"tr:", "sut">>, <<"en:", "tree", "-", "nuts">>}
IngredientTexts ==
    {None, Some(<<>>), Some(<<"sugar", ",", " ", "salt", ";", " ", "water">>),
     Some(<<"sugar", ";", " ", "salt", ",", " ", "water">>), Some(<<"un", ",", "tuz", ",">>)}

BaseProduct ==
    [code |-> Some("8690504"),
     product_name |-> Some("Biskuvi"),
     product_name_tr |-> None,
     brands |-> Some("Eti"),
     categories |-> None,
     image_url |-> None,
     nutriments |-> [t |-> "absent"],
     serving_size |-> None,
     serving_quantity |-> None,
     ingredients_text |-> None,
     ingredients_text_tr |-> None,
     allergens_tags |-> [t |-> "absent"],
     labels_tags |-> [t |-> "absent"],
     nova_group |-> None,
     nutriscore_grade |-> None]

Products ==
    {[BaseProduct EXCEPT !.nutriments = [t |-> "dict", m |-> m]] : m \in NutMaps}
    \cup {[BaseProduct EXCEPT !.nutriments = [t |-> "null"]]}
    \cup {[BaseProduct EXCEPT !.serving_size = a, !.serving_quantity = b] :
            a \in {None, Some(""), Some("30 g")}, b \in {None, Some("30")}}
    \cup {[BaseProduct EXCEPT !.ingredients_text = a, !.ingredients_text_tr = b] :
            a \in IngredientTexts, b \in IngredientTexts}
    \cup {[BaseProduct EXCEPT !.allergens_tags = [t |-> "list", l |-> l]] : l \in BoundedSeq(Tags, MaxTags)}
    \cup {[BaseProduct EXCEPT !.allergens_tags = [t |-> "null"]]}
    \cup {[BaseProduct EXCEPT !.product_name = a, !.product_name_tr = b,
                              !.labels_tags = l, !.nova_group = g] :
            a \in {None, Some("")}, b \in {None, Some("Biskuvi")},
            l \in {[t |-> "null"], [t |-> "list", l |-> <<"en:organic">>]},
            g \in {None, Some(4)}}

\* data.get('product') of a JSON object
ProductValues ==
    {[t |-> "absent"], [t |-> "null"], [t |-> "empty"], [t |-> "string"]}
    \cup {[t |-> "dict", p |-> p] : p \in Products}

\* response.json()
Bodies ==
    {[json |-> "invalid"], [json |-> "list"]}
    \cup {[json |-> "dict", status |-> st, product |-> pv] :
            st \in {None, Some(0), Some(1)}, pv \in ProductValues}

\* requests.get(url, timeout=5)
HttpOutcomes ==
    {[kind |-> "timeout"], [kind |-> "error"]}
    \cup {[kind |-> "response", status_code |-> c, body |-> b] : c \in {200, 404, 500}, b \in Bodies}

\* texts OCR can return
OcrAlphabet == {" ", "\n", "Calories", "5", "milk"}
SampleTexts ==
    {<<"Serving", " ", "Size", ":", " ", "3", "0", "g", " ", "Calories", " ", "1", "2", "0", " ",
       "Ingredients", ":", " ", "Wheat", ",", " ", "Sugar", ",", " ", "Salt">>,
     <<"Calories", ":", " ", "2", "5", "0">>,
     <<"*", " ", "!">>}
OcrTexts == BoundedSeq(OcrAlphabet, MaxTextLen) \cup SampleTexts

JSONResponse(content) == [kind |-> "json", status_code |-> 200, content |-> content]
HTTPException(status_code, detail) == [kind |-> "error", status_code |-> status_code, detail |-> detail]

\* except HTTPException: raise / except Exception: raise HTTPException(500)
HandlerError(e) ==
    IF e.type = "HTTPException" THEN e.val
    ELSE HTTPException(500, <<"Error processing image: ", e.type>>)

RaiseHTTP(status_code, detail) ==
    [exc |-> TRUE, type |-> "HTTPException", val |-> HTTPException(status_code, detail)]

\* lines 57-71: validate the upload and decode it
ReadImage(ct, contents) ==
    IF ct = None THEN Raise("AttributeError")
    ELSE IF ~IsImageType(ct) THEN RaiseHTTP(400, <<"File must be an image">>)
    ELSE IF imdecode(contents).exc THEN imdecode(contents)
    ELSE IF imdecode(contents).val = None THEN RaiseHTTP(400, <<"Invalid image file">>)
    ELSE imdecode(contents)

\* the record without the source assignment
WithSource_untagged(d, src) == d

\* structured_data["source"] = "ocr"
WithSource(d, src) ==
    [calories |-> d.calories, serving_size |-> d.serving_size, ingredients |-> d.ingredients,
     nutrition_facts |-> d.nutrition_facts, allergens |-> d.allergens, source |-> src]

NoCalls == [scan_and_fetch |-> 0, preprocess |-> 0, extract_text |-> 0, extract_food_data |-> 0]

OrchInit ==
    /\ pc = "START"
    /\ upload = None
    /\ image = None
    /\ barcode = None
    /\ lookup = "not_called"
    /\ barcode_data = None
    /\ processed_image = None
    /\ raw_text = None
    /\ response = [kind |-> "none"]
    /\ calls = NoCalls

\* the request arrives: content type check, read, decode
Receive ==
    /\ pc = "START"
    /\ \E ct \in ContentTypes, contents \in Contents :
         LET r == ReadImage(ct, contents)
         IN  IF r.exc
             THEN /\ response' = HandlerError(r)
                  /\ pc' = "DONE"
                  /\ image' = image
                  /\ upload' = Some([content_type |-> ct, contents |-> contents])
             ELSE /\ image' = r.val
                  /\ pc' = "BARCODE_ATTEMPT"
                  /\ response' = response
                  /\ upload' = Some([content_type |-> ct, contents |-> contents])
    /\ UNCHANGED <<barcode, lookup, barcode_data, processed_image, raw_text, calls>>
    /\ UNCHANGED <<robustVars, qualVars, callVars>>

\* Step 1: barcode_data = barcode_service.scan_and_fetch(image)
ScanAndFetch ==
    /\ pc = "BARCODE_ATTEMPT"
    /\ \E scan \in Scans, http \in HttpOutcomes :
         LET r == scan_and_fetch(scan, http)
         IN  /\ barcode' = detect_barcode(scan)
             /\ lookup' = IF TruthyStr(detect_barcode(scan)) THEN LookupKind(http) ELSE "not_called"
             /\ IF r.exc
                THEN /\ response' = HandlerError(r)
                     /\ pc' = "DONE"
                     /\ barcode_data' = barcode_data
                ELSE /\ barcode_data' = r.val
                     /\ pc' = IF r.val # None THEN "BARCODE_FOUND" ELSE "OCR_FALLBACK"
                     /\ response' = response
    /\ calls' = [calls EXCEPT !.scan_and_fetch = @ + 1]
    /\ UNCHANGED <<upload, image, processed_image, raw_text>>
    /\ UNCHANGED <<robustVars, qualVars, callVars>>

\* the barcode branch without its return: control falls through to Step 2
RespondBarcode_fallthrough ==
    /\ pc = "BARCODE_FOUND"
    /\ pc' = "OCR_FALLBACK"
    /\ UNCHANGED <<upload, image, barcode, lookup, barcode_data, processed_image, raw_text, response, calls>>
    /\ UNCHANGED <<robustVars, qualVars, callVars>>

\* if barcode_data: return the barcode response
RespondBarcode ==
    /\ pc = "BARCODE_FOUND"
    /\ response' = JSONResponse([success |-> TRUE,
                                 message |-> "Product found via barcode from OpenFoodFacts",
                                 method |-> "barcode",
                                 data |-> barcode_data])
    /\ pc' = "DONE"
    /\ UNCHANGED <<upload, image, barcode, lookup, barcode_data, processed_image, raw_text, calls>>
    /\ UNCHANGED <<robustVars, qualVars, callVars>>

\* ImageProcessor.preprocess: the cleaned raster, or plain grayscale when a step threw
preprocess(img, threw) == IF threw THEN Some("grayscale") ELSE Some("cleaned")

\* Step 2a: processed_image = image_processor.preprocess(image)
Preprocess ==
    /\ pc = "OCR_FALLBACK"
    /\ \E threw \in BOOLEAN : processed_image' = preprocess(image, threw)
    /\ calls' = [calls EXCEPT !.preprocess = @ + 1]
    /\ pc' = "OCR_RECOGNIZE"
    /\ UNCHANGED <<upload, image, barcode, lookup, barcode_data, raw_text, response>>
    /\ UNCHANGED <<robustVars, qualVars, callVars>>

\* OCRService.extract_text: the recognized text, or Exception("OCR failed")
OCRService_extract_text(ocr) ==
    IF ocr.kind = "error" THEN Raise("OCR failed") ELSE Return(Some(ocr.text))

OcrOutcomes == {[kind |-> "error"]} \cup {[kind |-> "text", text |-> t] : t \in OcrTexts}

\* Step 2b: raw_text = ocr_service.extract_text(processed_image)
Recognize ==
    /\ pc = "OCR_RECOGNIZE"
    /\ \E ocr \in OcrOutcomes :
         LET r == OCRService_extract_text(ocr)
         IN  IF r.exc
             THEN /\ response' = HandlerError(r)
                  /\ pc' = "DONE"
                  /\ raw_text' = raw_text
             ELSE /\ raw_text' = r.val
                  /\ pc' = "OCR_EXTRACT"
                  /\ response' = response
    /\ calls' = [calls EXCEPT !.extract_text = @ + 1]
    /\ UNCHANGED <<upload, image, barcode, lookup, barcode_data, processed_image>>
    /\ UNCHANGED <<robustVars, qualVars, callVars>>

\* the emptiness test without strip()
NoText_unstripped(text) == text = <<>>

\* not raw_text.strip()
NoText(text) == Strip(text) = <<>>

\* if not raw_text.strip(): no data; else Step 2c: extract and respond
Extract ==
    /\ pc = "OCR_EXTRACT"
    /\ IF NoText(Get(raw_text))
       THEN /\ response' = JSONResponse([success |-> FALSE,
                                         message |-> "No barcode found and no text detected in image",
                                         method |-> "ocr",
                                         data |-> None])
            /\ calls' = calls
       ELSE /\ \E structured_data \in extract_food_data(Get(raw_text)) :
                response' = JSONResponse([success |-> TRUE,
                                          message |-> "Image processed successfully via OCR",
                                          method |-> "ocr",
                                          data |-> Some(WithSource(structured_data, "ocr")),
                                          raw_text |-> Take(Get(raw_text), 500)])
            /\ calls' = [calls EXCEPT !.extract_food_data = @ + 1]
    /\ pc' = "DONE"
    /\ UNCHANGED <<upload, image, barcode, lookup, barcode_data, processed_image, raw_text>>
    /\ UNCHANGED <<robustVars, qualVars, callVars>>

RobustIdle ==
    /\ r_pc = "idle"
    /\ r_jobs = <<>>
    /\ results = <<>>
    /\ r_out = None

QualityIdle ==
    /\ q_image = None
    /\ q_report = None

CallIdle ==
    /\ f_name = "idle"
    /\ f_arg = None
    /\ f_ret = None

Init == OrchInit /\ RobustIdle /\ QualityIdle /\ CallIdle

Next == Receive \/ ScanAndFetch \/ RespondBarcode \/ Preprocess \/ Recognize \/ Extract

Spec == Init /\ [][Next]_vars

----------------------------------------------------------------------------
(* backend/ocr_service_advanced.py: extract_text_robust *)

MaxResults == 3

psm_modes == <<6, 3, 4, 11, 12>>

\* a confidence is the fraction num/den (den > 0)
ConfLess(a, b) == a.num * b.den < b.num * a.den
ConfEq(a, b) == a.num * b.den = b.num * a.den

RECURSIVE Sum(_)
Sum(s) == IF s = <<>> THEN 0 ELSE Head(s) + Sum(Tail(s))

Positive(c) == c > 0
NonBlank(w) == Strip(w) # <<>>
ConfOf(tok) == tok.conf
TextOf(tok) == tok.text

\* the pass with the tokens of non-positive confidence counted as zero
_ocr_single_pass_zero_counted(engine, psm_mode, method_name) ==
    IF engine.kind = "error" THEN None
    ELSE LET confidences == FilterSeq(Positive, MapSeq(ConfOf, engine.data))
         IN  Some([text |-> engine.text,
                   confidence |-> [num |-> Sum(confidences), den |-> Max(Len(engine.data), 1)],
                   word_count |-> Len(FilterSeq(NonBlank, MapSeq(TextOf, engine.data))),
                   method |-> <<method_name, psm_mode>>])

\* _ocr_single_pass: engine is what the two pytesseract calls did; the
\* result dict, or None when the pass threw
_ocr_single_pass(engine, psm_mode, method_name) ==
    IF engine.kind = "error" THEN None
    ELSE LET confidences == FilterSeq(Positive, MapSeq(ConfOf, engine.data))
             avg_confidence == IF confidences # <<>>
                               THEN [num |-> Sum(confidences), den |-> Len(confidences)]
                               ELSE [num |-> 0, den |-> 1]
             word_count == Len(FilterSeq(NonBlank, MapSeq(TextOf, engine.data)))
         IN  Some([text |-> engine.text,
                   confidence |-> avg_confidence,
                   word_count |-> word_count,
                   method |-> <<method_name, psm_mode>>])

\* a maximum that lets a later result win a tie
RECURSIVE MaxByConfidence_last(_, _)
MaxByConfidence_last(best, rest) ==
    IF rest = <<>> THEN best
    ELSE IF ConfLess(Head(rest).confidence, best.confidence)
         THEN MaxByConfidence_last(best, Tail(rest))
         ELSE MaxByConfidence_last(Head(rest), Tail(rest))

\* max(results, key=lambda x: x['confidence']): the first result that no
\* later result beats
RECURSIVE MaxByConfidence(_, _)
MaxByConfidence(best, rest) ==
    IF rest = <<>> THEN best
    ELSE IF ConfLess(best.confidence, Head(rest).confidence)
         THEN MaxByConfidence(Head(rest), Tail(rest))
         ELSE MaxByConfidence(best, Tail(rest))

SelectBest(rs) == MaxByConfidence(Head(rs), Tail(rs))

\* the (method_name, psm) pairs of the two nested loops, in loop order;
\* variations is the sequence of keys of preprocessed_variations
RECURSIVE Jobs(_)
Jobs(names) ==
    IF names = <<>> THEN <<>>
    ELSE [i \in 1..Len(psm_modes) |-> <<Head(names), psm_modes[i]>>] \o Jobs(Tail(names))

LoopJobs(variations) ==
    IF variations # None /\ Get(variations) # <<>> THEN Jobs(Get(variations)) ELSE Jobs(<<"default">>)

Variations == {None, Some(<<>>), Some(<<"standard">>), Some(<<"shiny_optimized", "standard">>)}

\* what the engine can do in one pass
Tok(c, w) == [conf |-> c, text |-> w]
EngineOutcomes ==
    {[kind |-> "error"],
     [kind |-> "ok", text |-> <<>>, data |-> <<Tok(-1, <<>>)>>],
     [kind |-> "ok", text |-> <<"A">>, data |-> <<Tok(50, <<"A">>)>>],
     [kind |-> "ok", text |-> <<"B">>, data |-> <<Tok(50, <<"B">>)>>],
     [kind |-> "ok", text |-> <<"A", " ", "B">>, data |-> <<Tok(-1, <<" ">>), Tok(30, <<"A">>), Tok(70, <<"B">>)>>],
     [kind |-> "ok", text |-> <<"B">>, data |-> <<Tok(90, <<"B">>), Tok(0, <<>>)>>]}

RobustInit ==
    /\ r_pc = "loop"
    /\ r_jobs \in {LoopJobs(v) : v \in Variations}
    /\ results = <<>>
    /\ r_out = None

\* one turn of the loop: run a pass, keep its result if there is one
Pass ==
    /\ r_pc = "loop"
    /\ r_jobs # <<>>
    /\ \E engine \in EngineOutcomes :
         /\ engine.kind = "ok" => Len(results) < MaxResults
         /\ LET result == _ocr_single_pass(engine, Head(r_jobs)[2], Head(r_jobs)[1])
            IN  results' = IF result # None THEN Append(results, Get(result)) ELSE results
    /\ r_jobs' = Tail(r_jobs)
    /\ UNCHANGED <<r_pc, r_out>>
    /\ UNCHANGED <<orchVars, qualVars, callVars>>

\* after the loops: "" for an empty batch, else the best result's text
Select ==
    /\ r_pc = "loop"
    /\ r_jobs = <<>>
    /\ r_out' = IF results = <<>> THEN Some(<<>>) ELSE Some(SelectBest(results).text)
    /\ r_pc' = "done"
    /\ UNCHANGED <<r_jobs, results>>
    /\ UNCHANGED <<orchVars, qualVars, callVars>>

RobustNext == Pass \/ Select

InitRobust == OrchInit /\ RobustInit /\ QualityIdle /\ CallIdle

SpecRobust == InitRobust /\ [][RobustNext]_vars

----------------------------------------------------------------------------
(* backend/image_processor_advanced.py: check_image_quality *)

Margin == 1

Around(x) == (x - Margin)..(x + Margin)

\* a raster by what check_image_quality measures of it
Rasters ==
    [channels : {1, 3},
     brightness : Around(40) \cup Around(215),
     blur : Around(100),
     contrast : Around(30),
     width : Around(800),
     height : Around(600)]

\* lines 263-292: one string per failed check
QualityIssues(img) ==
    (IF img.brightness < 40 THEN <<"Image too dark - use better lighting">>
     ELSE IF img.brightness > 215 THEN <<"Image too bright/overexposed - reduce lighting">>
     ELSE <<>>)
    \o (IF img.blur < 100
        THEN <<"Image too blurry - hold camera steady and focus on text">> ELSE <<>>)
    \o (IF img.contrast < 30
        THEN <<"Low contrast - improve lighting or try different angle">> ELSE <<>>)
    \o (IF img.width < 800 \/ img.height < 600
        THEN <<"Image resolution too low - get closer to the text">> ELSE <<>>)

\* lines 294-302: quality_score before it is floored
QualityScore(img) ==
    100 - (IF img.brightness < 40 \/ img.brightness > 215 THEN 30 ELSE 0)
        - (IF img.blur < 100 THEN 40 ELSE 0)
        - (IF img.contrast < 30 THEN 20 ELSE 0)
        - (IF img.width < 800 THEN 10 ELSE 0)

\* a report whose suitable flag is read off the score
check_image_quality_by_score(img) ==
    [suitable |-> QualityScore(img) = 100,
     quality_score |-> Max(0, QualityScore(img)),
     issues |-> QualityIssues(img),
     metrics |-> [brightness |-> img.brightness,
                  blur_score |-> img.blur,
                  contrast |-> img.contrast,
                  resolution |-> <<img.width, "x", img.height>>]]

check_image_quality(img) ==
    [suitable |-> Len(QualityIssues(img)) = 0,
     quality_score |-> Max(0, QualityScore(img)),
     issues |-> QualityIssues(img),
     metrics |-> [brightness |-> img.brightness,
                  blur_score |-> img.blur,
                  contrast |-> img.contrast,
                  resolution |-> <<img.width, "x", img.height>>]]

QualityInit ==
    /\ q_image \in {Some(r) : r \in Rasters}
    /\ q_report = None

CheckImageQuality ==
    /\ q_image # None
    /\ q_report = None
    /\ q_report' = Some(check_image_quality(Get(q_image)))
    /\ UNCHANGED q_image
    /\ UNCHANGED <<orchVars, robustVars, callVars>>

QualityNext == CheckImageQuality

InitQuality == OrchInit /\ RobustIdle /\ QualityInit /\ CallIdle

SpecQuality == InitQuality /\ [][QualityNext]_vars

----------------------------------------------------------------------------
(* The extractors, the mapper and the image steps called on their own *)

\* texts handed to _extract_calories
CalorieAlphabet == {"Calories", "energy", "caloric", "value", "kcal", ":", " ", "2", "5"}
CalorieSamples ==
    {<<"Calories", ":", " ", "2", "5", "0">>,
     <<"Energy", ":", " ", "5", "2", " ", "kcal">>,
     <<"caloric", " ", "value", ":", " ", "5">>,
     <<"water", ",", " ", "salt">>}
CalorieTexts == BoundedSeq(CalorieAlphabet, MaxTextLen) \cup CalorieSamples

CalorieArgs == {[kind |-> "calorie_text", text |-> t] : t \in CalorieTexts}

\* calories = self._extract_calories(text)
ExtractCalories ==
    /\ f_name = "idle"
    /\ f_arg.kind = "calorie_text"
    /\ f_name' = "_extract_calories"
    /\ f_ret' = Some(_extract_calories(f_arg.text))
    /\ UNCHANGED f_arg
    /\ UNCHANGED <<orchVars, robustVars, qualVars>>

\* a raster: its shape, the angle cv2.minAreaRect reports for its foreground
\* in tenths of a degree (None without foreground pixels), and the
\* operations applied to the pixels so far
Raster(width, height, channels, angle) ==
    [width |-> width, height |-> height, channels |-> channels, angle |-> angle, ops |-> <<>>]

Op(name) == [op |-> name, by |-> 0]
Applied(img, name) == [img EXCEPT !.ops = Append(@, Op(name))]

\* self.target_width
target_width == 1500

\* (width, height) pairs of the model for which the double product
\* new_width * (height / width) falls just short of the exact integer value
RoundsShort == {<<5, 23>>}

\* int(new_width * aspect_ratio)
new_height(width, height) ==
    IF <<width, height>> \in RoundsShort
    THEN (target_width * height) \div width - 1
    ELSE (target_width * height) \div width

\* _resize_image (the same code in ImageProcessor and ImageProcessorAdvanced);
\* cv2.resize raises for an empty target size
_resize_image(img) ==
    IF 2 * img.width < target_width \/ img.width > target_width * 2
    THEN IF new_height(img.width, img.height) = 0
         THEN Raise("cv2.error")
         ELSE Return([img EXCEPT !.width = target_width,
                                   !.height = new_height(img.width, img.height)])
    ELSE Return(img)

\* cv2.cvtColor(image, cv2.COLOR_BGR2GRAY): needs a 3-channel raster
cvtColor_BGR2GRAY(img) ==
    IF img.channels # 3 THEN Raise("cv2.error")
    ELSE Return([Applied(img, "gray") EXCEPT !.channels = 1])

\* the adjusted angle of _deskew_image, in tenths of a degree
DeskewAngle(angle) == IF angle < -450 THEN -(900 + angle) ELSE -angle

Abs(x) == IF x < 0 THEN -x ELSE x

\* _deskew_image: unchanged without foreground or below half a degree, else
\* rotated about the centre by the adjusted angle
_deskew_image(img) ==
    IF img.angle = None THEN img
    ELSE IF Abs(DeskewAngle(Get(img.angle))) < 5 THEN img
    ELSE [img EXCEPT !.ops = Append(@, [op |-> "rotate", by |-> DeskewAngle(Get(img.angle))]),
                       !.angle = Some(0)]

\* one step of a recipe on img; fault names the step that throws, if any
Step(name, img, fault) ==
    IF name = fault THEN Raise("cv2.error")
    ELSE IF name = "resize" THEN _resize_image(img)
    ELSE IF name = "gray" THEN cvtColor_BGR2GRAY(img)
    ELSE IF name = "deskew" THEN Return(_deskew_image(img))
    ELSE Return(Applied(img, name))

\* the steps in sequence, up to the first that throws
RECURSIVE RunSteps(_, _, _)
RunSteps(steps, img, fault) ==
    IF steps = <<>> THEN Return(img)
    ELSE LET r == Step(Head(steps), img, fault)
         IN  IF r.exc THEN r ELSE RunSteps(Tail(steps), r.val, fault)

\* ImageProcessor.preprocess: on an exception the grayscale of whatever the
\* variable image holds at that point
ImageProcessor_preprocess(img, fault) ==
    LET resized == Step("resize", img, fault)
        held == IF resized.exc THEN img ELSE resized.val
        body == IF resized.exc THEN resized
                ELSE RunSteps(<<"gray", "denoise", "clahe", "threshold", "morph_close", "morph_open">>,
                              held, fault)
    IN  IF body.exc THEN cvtColor_BGR2GRAY(held) ELSE body

\* _remove_glare
_remove_glare(img, fault) == Step("glare", img, fault)

\* ImageProcessorAdvanced.preprocess_shiny_package: image is reassigned by
\* the resize and by the glare removal before the fallback reads it
preprocess_shiny_package(img, fault) ==
    LET resized == Step("resize", img, fault)
        glared == IF resized.exc THEN resized
                  ELSE IF resized.val.channels = 3 THEN _remove_glare(resized.val, fault)
                  ELSE resized
        held == IF resized.exc THEN img ELSE IF glared.exc THEN resized.val ELSE glared.val
        body == IF glared.exc THEN glared
                ELSE RunSteps(<<"gray", "denoise", "clahe", "unsharp", "threshold", "deskew",
                                "morph_close", "morph_open">>, held, fault)
    IN  IF body.exc THEN cvtColor_BGR2GRAY(held) ELSE body

_standard_preprocess(img, fault) ==
    RunSteps(<<"resize", "gray", "denoise", "clahe", "threshold", "morph_close", "morph_open">>, img, fault)

_high_contrast_preprocess(img, fault) ==
    RunSteps(<<"resize", "gray", "clahe", "unsharp", "threshold">>, img, fault)

\* cv2.bitwise_not(results['standard'])
Inverted(standard, fault) ==
    IF standard.exc THEN standard ELSE Step("bitwise_not", standard.val, fault)

\* gray = cv2.cvtColor(image, ...) of the raster as given, then a threshold
Thresholded(img, fault) == RunSteps(<<"gray", "threshold">>, img, fault)

\* the candidates of the two preprocess_multiple_methods, by class and key
Recipes ==
    {"ImageProcessor.standard", "ImageProcessor.simple_threshold", "ImageProcessor.inverted",
     "Advanced.shiny_optimized", "Advanced.standard", "Advanced.high_contrast",
     "Advanced.inverted", "Advanced.otsu", "Advanced.adaptive_mean"}

Candidate(recipe, img, fault) ==
    CASE recipe = "ImageProcessor.standard" -> ImageProcessor_preprocess(img, fault)
      [] recipe = "ImageProcessor.simple_threshold" -> Thresholded(img, fault)
      [] recipe = "ImageProcessor.inverted" -> Inverted(ImageProcessor_preprocess(img, fault), fault)
      [] recipe = "Advanced.shiny_optimized" -> preprocess_shiny_package(img, fault)
      [] recipe = "Advanced.standard" -> _standard_preprocess(img, fault)
      [] recipe = "Advanced.high_contrast" -> _high_contrast_preprocess(img, fault)
      [] recipe = "Advanced.inverted" -> Inverted(_standard_preprocess(img, fault), fault)
      [] recipe = "Advanced.otsu" -> Thresholded(img, fault)
      [] recipe = "Advanced.adaptive_mean" -> Thresholded(img, fault)

\* the steps a library call can throw in
Faults ==
    {"none", "resize", "glare", "denoise", "clahe", "unsharp", "threshold", "deskew",
     "morph_close", "morph_open", "bitwise_not"}

\* what a call gave back, as a value of the state
Outcome(r) == [exc |-> r.exc, type |-> r.type, val |-> IF r.exc THEN None ELSE Some(r.val)]

\* rasters handed to the image steps
Widths == {1, 5, 749, 750, 1500, 3000, 3001, 4500}
Heights == {1, 2, 23, 600, 2000}
RasterArgs ==
    {[kind |-> "raster", image |-> Raster(w, h, c, a)] :
        w \in Widths, h \in Heights, c \in {1, 3}, a \in {None, Some(0), Some(-880)}}

\* one candidate of preprocess_multiple_methods
PreprocessCandidate ==
    /\ f_name = "idle"
    /\ f_arg.kind = "raster"
    /\ \E recipe \in Recipes, fault \in Faults :
         /\ f_name' = recipe
         /\ f_ret' = Some([fault |-> fault, out |-> Outcome(Candidate(recipe, f_arg.image, fault))])
    /\ UNCHANGED f_arg
    /\ UNCHANGED <<orchVars, robustVars, qualVars>>

\* the keys of the dictionary each preprocess_multiple_methods fills
MethodsOf ==
    [ImageProcessor |-> {"ImageProcessor.standard", "ImageProcessor.simple_threshold",
                         "ImageProcessor.inverted"},
     Advanced |-> {"Advanced.shiny_optimized", "Advanced.standard", "Advanced.high_contrast",
                   "Advanced.inverted", "Advanced.otsu", "Advanced.adaptive_mean"}]

\* preprocess_multiple_methods of a class: the dictionary of its candidates,
\* or the exception of the first candidate that raised
preprocess_multiple_methods(class, img, fault) ==
    IF \E r \in MethodsOf[class] : Candidate(r, img, fault).exc
    THEN Raise("cv2.error")
    ELSE Return([r \in MethodsOf[class] |-> Candidate(r, img, fault).val])

\* results = preprocess_multiple_methods(image)
PreprocessMultipleMethods ==
    /\ f_name = "idle"
    /\ f_arg.kind = "raster"
    /\ \E class \in DOMAIN MethodsOf, fault \in Faults :
         /\ f_name' = "preprocess_multiple_methods"
         /\ f_ret' = Some([class |-> class, fault |-> fault,
                           out |-> Outcome(preprocess_multiple_methods(class, f_arg.image, fault))])
    /\ UNCHANGED f_arg
    /\ UNCHANGED <<orchVars, robustVars, qualVars>>

\* ingredient spans: the text after "Ingredients:" and the free-text field
MaxSpanLen == 5
SpanAlphabet == {"sugar", "salt", ",", ";", " "}
SpanSamples ==
    {<<"sugar", ",", " ", "salt", ";", " ", "water">>,
     <<"sugar", ";", " ", "salt", ",", " ", "water">>}
Spans == BoundedSeq(SpanAlphabet, MaxSpanLen) \cup SpanSamples

IngredientArgs == {[kind |-> "ingredient_text", text |-> <<"Ingredients", ":", " ">> \o s] : s \in Spans}

ProductArgs ==
    {[kind |-> "product", product |-> p] : p \in Products}
    \cup {[kind |-> "product", product |-> [BaseProduct EXCEPT !.ingredients_text = Some(s)]] : s \in Spans}

\* ingredients = self._extract_ingredients(text)
ExtractIngredients ==
    /\ f_name = "idle"
    /\ f_arg.kind = "ingredient_text"
    /\ f_name' = "_extract_ingredients"
    /\ f_ret' = Some(_extract_ingredients(f_arg.text))
    /\ UNCHANGED f_arg
    /\ UNCHANGED <<orchVars, robustVars, qualVars>>

\* self._extract_product_data(product)
ExtractProductData ==
    /\ f_name = "idle"
    /\ f_arg.kind = "product"
    /\ f_name' = "_extract_product_data"
    /\ f_ret' = Some(_extract_product_data(f_arg.product))
    /\ UNCHANGED f_arg
    /\ UNCHANGED <<orchVars, robustVars, qualVars>>

\* what image_to_data can report in one pass: per token a confidence
\* (-1 where the engine gives none) and its text
MaxTokens == 3
TokenConfs == {-1, 0, 1, 100}
Tokens == {Tok(c, w) : c \in TokenConfs, w \in {<<>>, <<"A">>}}
EngineArgs ==
    {[kind |-> "engine", engine |-> [kind |-> "error"]]}
    \cup {[kind |-> "engine", engine |-> [kind |-> "ok", text |-> <<"A">>, data |-> d]] :
            d \in BoundedSeq(Tokens, MaxTokens)}

\* result = self._ocr_single_pass(image, psm, 'default')
OcrSinglePass ==
    /\ f_name = "idle"
    /\ f_arg.kind = "engine"
    /\ f_name' = "_ocr_single_pass"
    /\ f_ret' = _ocr_single_pass(f_arg.engine, psm_modes[1], "default")
    /\ UNCHANGED f_arg
    /\ UNCHANGED <<orchVars, robustVars, qualVars>>

\* what the two pytesseract calls of extract_with_best_psm can do in one
\* mode: image_to_data raises or reports the token confidences, and
\* image_to_string, when it is reached, raises, reads nothing or reads text
PsmConfs == {<<-1, 0>>, <<50>>, <<100, -1, 80>>}
PsmRuns ==
    {[data |-> "error"], [data |-> "ok", conf |-> <<-1, 0>>, string |-> "text"]}
    \cup {[data |-> "ok", conf |-> c, string |-> s] :
            c \in PsmConfs \ {<<-1, 0>>}, s \in {"error", "empty", "text"}}
PsmArgs == {[kind |-> "psm_runs", runs |-> r] : r \in [1..Len(psm_modes) -> PsmRuns]}

\* the text image_to_string reads in a mode
PsmText(run, psm) == IF run.string = "empty" THEN <<>> ELSE <<"psm", ToString(psm)>>

\* avg_conf of a mode whose image_to_data returned
AvgConf(run) ==
    LET confidences == FilterSeq(Positive, run.conf)
    IN  IF confidences # <<>> THEN [num |-> Sum(confidences), den |-> Len(confidences)]
        ELSE [num |-> 0, den |-> 1]

\* one turn of the loop of extract_with_best_psm: an exception of either call
\* is caught, the one of image_to_string after best_confidence was assigned
BestPsmStep(loc, run, psm) ==
    IF run.data = "error" THEN loc
    ELSE IF ~ConfLess(loc.best_confidence, AvgConf(run)) THEN loc
    ELSE IF run.string = "error" THEN [loc EXCEPT !.best_confidence = AvgConf(run)]
    ELSE [best_result |-> Some(PsmText(run, psm)),
          best_confidence |-> AvgConf(run),
          best_psm |-> Some(psm)]

RECURSIVE BestPsmLoop(_, _, _)
BestPsmLoop(loc, runs, i) ==
    IF i > Len(psm_modes) THEN loc
    ELSE BestPsmLoop(BestPsmStep(loc, runs[i], psm_modes[i]), runs, i + 1)

\* extract_with_best_psm: best_psm is a local that only the loop assigns, and
\* the log line after the loop reads it
extract_with_best_psm(runs) ==
    LET loc == BestPsmLoop([best_result |-> None,
                            best_confidence |-> [num |-> 0, den |-> 1],
                            best_psm |-> None], runs, 1)
    IN  IF loc.best_psm = None THEN Raise("UnboundLocalError")
        ELSE IF TruthyText(loc.best_result) THEN Return(Get(loc.best_result))
        ELSE Return(<<>>)

\* text = ocr.extract_with_best_psm(image)
ExtractWithBestPsm ==
    /\ f_name = "idle"
    /\ f_arg.kind = "psm_runs"
    /\ f_name' = "extract_with_best_psm"
    /\ f_ret' = Some(Outcome(extract_with_best_psm(f_arg.runs)))
    /\ UNCHANGED f_arg
    /\ UNCHANGED <<orchVars, robustVars, qualVars>>

\* texts with allergen words, with and without a declaration clause
AllergenAlphabet == {"Contains", ":", " ", "milk", "soybeans"}
AllergenSamples == {<<"May", " ", "contain", ":", " ", "tree", " ", "nuts", ",", " ", "milk">>}
AllergenArgs ==
    {[kind |-> "allergen_text", text |-> t] :
        t \in BoundedSeq(AllergenAlphabet, MaxTextLen) \cup AllergenSamples}

\* data = text_processor.extract_food_data(text), called on a text of its own
ExtractFoodData ==
    /\ f_name = "idle"
    /\ f_arg.kind \in {"ingredient_text", "allergen_text"}
    /\ f_name' = "extract_food_data"
    /\ \E d \in extract_food_data(f_arg.text) : f_ret' = Some(d)
    /\ UNCHANGED f_arg
    /\ UNCHANGED <<orchVars, robustVars, qualVars>>

\* rasters handed to _deskew_image: every angle cv2.minAreaRect can report,
\* in tenths of a degree, and a raster without foreground
SkewedArgs ==
    {[kind |-> "skewed", image |-> Raster(1500, 600, 1, a)] :
        a \in {None} \cup {Some(t) : t \in -900..900}}

\* deskewed = self._deskew_image(thresh)
DeskewImage ==
    /\ f_name = "idle"
    /\ f_arg.kind = "skewed"
    /\ f_name' = "_deskew_image"
    /\ f_ret' = Some(_deskew_image(f_arg.image))
    /\ UNCHANGED f_arg
    /\ UNCHANGED <<orchVars, robustVars, qualVars>>

\* image = self._resize_image(image), and once more on what it returned
ResizeImage ==
    /\ f_name = "idle"
    /\ f_arg.kind = "raster"
    /\ f_name' = "_resize_image"
    /\ LET once == _resize_image(f_arg.image)
       IN  f_ret' = Some([once |-> Outcome(once),
                          twice |-> IF once.exc THEN Outcome(once) ELSE Outcome(_resize_image(once.val))])
    /\ UNCHANGED f_arg
    /\ UNCHANGED <<orchVars, robustVars, qualVars>>

\* a call starts from one argument of one of the functions
CallInit ==
    /\ f_name = "idle"
    /\ \/ f_arg \in CalorieArgs
       \/ f_arg \in IngredientArgs
       \/ f_arg \in ProductArgs
       \/ f_arg \in EngineArgs
       \/ f_arg \in RasterArgs
       \/ f_arg \in SkewedArgs
       \/ f_arg \in PsmArgs
       \/ f_arg \in AllergenArgs
    /\ f_ret = None

InitCalls == OrchInit /\ RobustIdle /\ QualityIdle /\ CallInit

CallNext ==
    \/ ExtractCalories \/ ExtractIngredients \/ ExtractProductData
    \/ OcrSinglePass \/ PreprocessCandidate \/ DeskewImage \/ ResizeImage
    \/ PreprocessMultipleMethods \/ ExtractWithBestPsm \/ ExtractFoodData

SpecCalls == InitCalls /\ [][CallNext]_vars

----------------------------------------------------------------------------
(* Properties *)

IsJson == response.kind = "json"
IsError == response.kind = "error"
BarcodeResponse == IsJson /\ response.content.method = "barcode"
OcrPcs == {"OCR_FALLBACK", "OCR_RECOGNIZE", "OCR_EXTRACT"}
LookupFailures ==
    {"timeout", "error", "bad_status", "malformed", "status_not_1", "no_product", "mapping_error"}

\* C1: the barcode-sourced response is produced only if barcode decoding
\* returned a code and the lookup for it was a positive match (HTTP 200,
\* status 1, a non-empty product); in every other case no barcode record
\* is returned.
C1_BarcodeOnlyOnMatch ==
    /\ (pc = "BARCODE_FOUND" \/ BarcodeResponse) => (TruthyStr(barcode) /\ lookup = "match")
    /\ BarcodeResponse => response.content.data = barcode_data /\ barcode_data # None

C1_Witness == pc = "DONE" /\ BarcodeResponse /\ lookup = "match"

\* C2: every failure of the remote lookup (timeout, connection error, status
\* other than 200, status field other than 1, missing product, malformed or
\* drifted body, an exception while mapping the product) counts as "not
\* found": no exception leaves scan_and_fetch and the request goes on to
\* the OCR fallback instead of answering with an error.
C2_LookupFailureFallsBack ==
    (pc # "BARCODE_ATTEMPT" /\ lookup \in LookupFailures) =>
        /\ barcode_data = None
        /\ pc \in OcrPcs \/ (pc = "DONE" /\ calls.preprocess = 1)

C2_Witness == pc = "OCR_FALLBACK" /\ lookup = "mapping_error"

\* C3: in the OCR fallback an empty or white-space-only text ends the
\* request with "no data found" (success false, data null) and the field
\* extractor is not invoked; any other text makes the field extractor run
\* exactly once and its record is tagged source = "ocr".
C3_BlankTextSkipsExtractor ==
    /\ pc # "DONE" => calls.extract_food_data = 0
    /\ (pc = "DONE" /\ raw_text # None) =>
          IF Strip(Get(raw_text)) = <<>>
          THEN /\ IsJson
               /\ response.content.success = FALSE
               /\ response.content.data = None
               /\ calls.extract_food_data = 0
          ELSE /\ IsJson
               /\ response.content.success = TRUE
               /\ calls.extract_food_data = 1
               /\ response.content.data # None
               /\ Get(response.content.data).source = "ocr"

C3_Witness ==
    /\ pc = "DONE"
    /\ raw_text = Some(<<" ", "\n">>)
    /\ IsJson /\ response.content.data = None
    /\ calls.extract_food_data = 0

\* the state of the orchestrator's state machine at a position
OrchState(p) == IF p \in OcrPcs THEN "OCR_FALLBACK" ELSE p

\* C4: within one request the states follow START -> BARCODE_ATTEMPT ->
\* (BARCODE_FOUND | OCR_FALLBACK) -> DONE (a request that fails fatally goes
\* to DONE from where it is): the barcode path runs at most once, each OCR
\* stage runs at most once and never before the barcode attempt, the two
\* paths never both produce the response, and nothing runs after DONE.
C4_Step ==
    /\ pc # "DONE"
    /\ \/ OrchState(pc) = "START" /\ pc' = "BARCODE_ATTEMPT"
       \/ OrchState(pc) = "BARCODE_ATTEMPT" /\ pc' \in {"BARCODE_FOUND", "OCR_FALLBACK"}
       \/ OrchState(pc) = "BARCODE_FOUND" /\ pc' = "DONE"
       \/ OrchState(pc) = "OCR_FALLBACK" /\ OrchState(pc') \in {"OCR_FALLBACK", "DONE"}
       \/ pc' = "DONE" /\ response'.kind = "error"
    /\ calls'.scan_and_fetch <= 1 /\ calls'.preprocess <= 1
    /\ calls'.extract_text <= 1 /\ calls'.extract_food_data <= 1
    /\ calls'.preprocess + calls'.extract_text + calls'.extract_food_data > 0
          => calls'.scan_and_fetch = 1 /\ barcode_data' = None
    /\ (response'.kind = "json" /\ response'.content.method = "barcode") => calls'.preprocess = 0
    /\ OrchState(pc') = "OCR_FALLBACK" => barcode_data' = None

C4_StateSequence == [][C4_Step]_vars

C4_Witness == pc = "DONE" /\ calls = [scan_and_fetch |-> 1, preprocess |-> 1, extract_text |-> 1, extract_food_data |-> 1]

\* the upload reached the decoder and did not decode into a raster
DecodeFailed == upload # None /\ Get(upload).content_type # None
                /\ IsImageType(Get(upload).content_type) /\ Get(upload).contents # "image"

\* C5: when the uploaded bytes do not decode into a raster the request
\* fails with a client error (not the generic internal error) and neither
\* the barcode attempt nor any OCR stage runs.
C5_UndecodableIsClientError ==
    DecodeFailed => /\ pc = "DONE"
                    /\ IsError
                    /\ response.status_code = 400
                    /\ calls = NoCalls

\* C6: a record of the barcode path and a record of the OCR path have the
\* same key set for the canonical fields: calories {value, value_per_serving,
\* unit, found}, serving_size {value, found}, ingredients {list, raw, found},
\* nutrition_facts, allergens {list, found} and source.
CanonicalKeys(d) ==
    /\ {"calories", "serving_size", "ingredients", "nutrition_facts", "allergens", "source"}
          \subseteq DOMAIN d
    /\ DOMAIN d.calories = {"value", "value_per_serving", "unit", "found"}
    /\ DOMAIN d.serving_size = {"value", "found"}
    /\ DOMAIN d.ingredients = {"list", "raw", "found"}
    /\ DOMAIN d.allergens = {"list", "found"}

C6_IdenticalKeySet ==
    (IsJson /\ response.content.data # None) => CanonicalKeys(Get(response.content.data))

ModeRank(psm) == CHOOSE i \in 1..5 : <<6, 3, 4, 11, 12>>[i] = psm
InGenerationOrder(rs) ==
    \A i, j \in 1..Len(rs) :
        i < j => \/ rs[i].method[1] # rs[j].method[1]
                 \/ ModeRank(rs[i].method[2]) < ModeRank(rs[j].method[2])
CandidateMajor(rs) ==
    \A i, j, k \in 1..Len(rs) :
        (i < j /\ j < k /\ rs[i].method[1] = rs[k].method[1]) => rs[j].method[1] = rs[i].method[1]

\* C8: from a non-empty batch in generation order the selector returns the
\* text of a result whose confidence no result of the batch exceeds, and of
\* the results tied at the maximum it is the one generated first.
C8_FirstMaximumSelected ==
    /\ InGenerationOrder(results) /\ CandidateMajor(results)
    /\ (r_pc = "done" /\ results # <<>>) =>
          \E i \in 1..Len(results) :
              /\ r_out = Some(results[i].text)
              /\ \A j \in 1..Len(results) : ~ConfLess(results[i].confidence, results[j].confidence)
              /\ \A j \in 1..(i - 1) : ConfLess(results[j].confidence, results[i].confidence)

\* two results tie at the maximum with different texts and the first one won
C8_Witness ==
    /\ r_pc = "done" /\ Len(results) >= 2
    /\ \E i, j \in 1..Len(results) :
          /\ i < j
          /\ ConfEq(results[i].confidence, results[j].confidence)
          /\ results[i].text # results[j].text
          /\ \A k \in 1..Len(results) : ~ConfLess(results[i].confidence, results[k].confidence)
          /\ r_out = Some(results[i].text)
          /\ results[i].method[1] # results[j].method[1]

\* the orchestrator's OCR pass threw
OcrPassFailed == calls.extract_text = 1 /\ raw_text = None

\* C9: a failed OCR pass only loses that pass's result and never fails the
\* request; when every pass fails the recognition outcome is the empty
\* string and the request ends with "no text detected", not with an error.
C9_PassFailureNeverFailsRequest ==
    OcrPassFailed => /\ ~IsError
                     /\ pc = "DONE" => /\ IsJson
                                       /\ response.content.success = FALSE
                                       /\ response.content.data = None

\* C10: for every raster check_image_quality returns a score in [0,100] and
\* suitable is true exactly when the issues list is empty.
C10_ScoreRangeAndSuitable ==
    q_report # None =>
        /\ Get(q_report).quality_score \in 0..100
        /\ Get(q_report).suitable = (Get(q_report).issues = <<>>)

\* a large enough width with too small a height: an issue without a deduction
C10_Witness ==
    /\ q_report # None
    /\ Get(q_report).quality_score = 100
    /\ Get(q_report).issues # <<>>
    /\ ~Get(q_report).suitable

\* the recognized text of the end-to-end example
EndToEndText ==
    <<"Serving", " ", "Size", ":", " ", "3", "0", "g", " ", "Calories", " ", "1", "2", "0", " ",
      "Ingredients", ":", " ", "Wheat", ",", " ", "Sugar", ",", " ", "Salt">>

\* the request found no decodable barcode and the engine recognized the example text
EndToEndCase ==
    /\ pc = "DONE" /\ barcode = None /\ calls.scan_and_fetch = 1
    /\ raw_text = Some(EndToEndText)

\* C11: with no decodable barcode and the recognized text "Serving Size: 30g
\* Calories 120 Ingredients: Wheat, Sugar, Salt" the returned record has
\* calories {120, "kcal", found}, serving_size {"30g", found}, the ingredient
\* list [Wheat, Sugar, Salt] with found, and source "ocr".
C11_EndToEndRecord ==
    EndToEndCase =>
        /\ IsJson /\ response.content.data # None
        /\ LET d == Get(response.content.data)
           IN  /\ d.calories = [value |-> Some(120), unit |-> "kcal", found |-> TRUE]
               /\ d.serving_size = [value |-> Some(<<"3", "0", "g">>), found |-> TRUE]
               /\ d.ingredients.list = <<<<"Wheat">>, <<"Sugar">>, <<"Salt">>>>
               /\ d.ingredients.found
               /\ d.source = "ocr"

\* the patterns of the calorie extractor that match the lower-cased text
CalorieMatches(t) == {i \in 1..Len(calorie_patterns) : Search(calorie_patterns[i], LowerText(t)) # None}

\* C12: the calorie extractor tries "calories: N", "energy: N kcal/cal",
\* "N kcal/cal", "caloric value: N" in this order and returns {N, "kcal",
\* found} for the integer captured by the first pattern that matches; it
\* returns {null, "kcal", not found} exactly when no pattern matches, so
\* found holds iff value is an integer.
C12_FirstCaloriePatternWins ==
    f_name = "_extract_calories" =>
        LET r == Get(f_ret)
            hits == CalorieMatches(f_arg.text)
        IN  /\ r.unit = "kcal"
            /\ r.found <=> r.value # None
            /\ r.found <=> hits # {}
            /\ hits # {} =>
                 LET first == CHOOSE i \in hits : \A j \in hits : i <= j
                     m == Get(Search(calorie_patterns[first], LowerText(f_arg.text)))
                 IN  r.value = Some(ParseInt(m.group, 0))
            /\ f_arg.text = <<"Calories", ":", " ", "2", "5", "0">> => r.value = Some(250)

\* a later pattern matches further left with another number, the first pattern wins
C12_Witness ==
    /\ f_name = "_extract_calories"
    /\ f_arg.text = <<"5", "Calories", "2">>
    /\ CalorieMatches(f_arg.text) = {1, 3}
    /\ Get(f_ret) = [value |-> Some(2), unit |-> "kcal", found |-> TRUE]

\* the plain grayscale conversion of the resized original
PlainGray(img) ==
    LET resize == 2 * img.width < 1500 \/ img.width > 3000
    IN  [img EXCEPT !.width = IF resize THEN 1500 ELSE @,
                    !.height = IF resize THEN (1500 * @) \div img.width ELSE @,
                    !.channels = 1,
                    !.ops = <<Op("gray")>>]

\* C13: normalization never aborts: for every candidate recipe, when a step
\* throws the candidate is the plain grayscale conversion of the resized
\* original (so a candidate is either the recipe's complete result or that
\* fallback) and no exception leaves the pipeline.
C13_NormalizationNeverAborts ==
    f_name \in Recipes =>
        LET out == Get(f_ret).out
            complete == Candidate(f_name, f_arg.image, "none")
        IN  /\ ~out.exc
            /\ \/ ~complete.exc /\ out.val = Some(complete.val)
               \/ out.val = Some(PlainGray(f_arg.image))

\* the text with commas and semicolons exchanged
SwapSeparator(l) == IF l = "," THEN ";" ELSE IF l = ";" THEN "," ELSE l
Swapped(t) == MapSeq(SwapSeparator, t)

Trimmed(s) == s = <<>> \/ (s[1] \notin WhiteSpace /\ s[Len(s)] \notin WhiteSpace)

IsWord(l) == l \notin WhiteSpace \cup {",", ";"}

RECURSIVE Concat(_)
Concat(list) == IF list = <<>> THEN <<>> ELSE Head(list) \o Concat(Tail(list))

\* the tokens of list hold no separator and, read in order, the words of span
TokensInOrder(list, span) ==
    /\ \A i \in 1..Len(list) : \A k \in 1..Len(list[i]) : list[i][k] \notin {",", ";"}
    /\ FilterSeq(IsWord, Concat(list)) = FilterSeq(IsWord, span)

\* C14: ingredient splitting does not depend on which separator is used:
\* exchanging commas and semicolons in the span gives the same list, both
\* "sugar, salt; water" and "sugar; salt, water" give [sugar, salt, water],
\* tokens are trimmed and in their original order; for the OCR extractor
\* and for the barcode mapper.
C14_SeparatorOrderIndependent ==
    /\ f_name = "_extract_ingredients" =>
         LET r == Get(f_ret)
         IN  /\ r.list = _extract_ingredients(Swapped(f_arg.text)).list
             /\ \A i \in 1..Len(r.list) : Trimmed(r.list[i])
             /\ TokensInOrder(r.list, SubSeq(f_arg.text, 4, Len(f_arg.text)))
             /\ SubSeq(f_arg.text, 4, Len(f_arg.text)) \in SpanSamples =>
                  r.list = <<<<"sugar">>, <<"salt">>, <<"water">>>>
    /\ (f_name = "_extract_product_data" /\ ~Get(f_ret).exc) =>
         LET r == Get(Get(f_ret).val).ingredients
             swapped == [f_arg.product EXCEPT
                            !.ingredients_text = IF @ = None THEN None ELSE Some(Swapped(Get(@))),
                            !.ingredients_text_tr = IF @ = None THEN None ELSE Some(Swapped(Get(@)))]
         IN  /\ r.list = Get(_extract_product_data(swapped).val).ingredients.list
             /\ \A i \in 1..Len(r.list) : Trimmed(r.list[i])
             /\ r.found => TokensInOrder(r.list, Get(r.raw))
             /\ (r.found /\ Get(r.raw) \in SpanSamples) =>
                  r.list = <<<<"sugar">>, <<"salt">>, <<"water">>>>

\* the barcode mapper split the span of the example
C14_Witness ==
    /\ f_name = "_extract_product_data"
    /\ f_arg.product.ingredients_text = Some(<<"sugar", ";", " ", "salt", ",", " ", "water">>)
    /\ Get(Get(f_ret).val).ingredients.list = <<<<"sugar">>, <<"salt">>, <<"water">>>>

\* C15: a (candidate, segmentation mode) run adds a result to the batch
\* only if its recognized text is non-empty, so a run that succeeded with
\* empty text is never in the batch and never selected.
C15_OnlyNonEmptyTextInBatch ==
    /\ \A i \in 1..Len(results) : results[i].text # <<>>
    /\ (r_pc = "done" /\ results # <<>>) => SelectBest(results).text # <<>>

\* the tokens of data with a strictly positive confidence, and their total
PositiveTokens(data) == {i \in 1..Len(data) : data[i].conf > 0}

RECURSIVE TotalOf(_, _)
TotalOf(data, idx) ==
    IF idx = {} THEN 0
    ELSE LET i == CHOOSE j \in idx : TRUE IN data[i].conf + TotalOf(data, idx \ {i})

\* C16: for token confidences in [-1,100] avg_confidence is the mean of the
\* strictly positive ones (the others are left out, not counted as zero),
\* 0 when there is none, and so within [0,100]; word_count is never negative.
C16_MeanOfPositiveConfidences ==
    (f_name = "_ocr_single_pass" /\ f_ret # None) =>
        LET r == Get(f_ret)
            pos == PositiveTokens(f_arg.engine.data)
        IN  /\ r.confidence.den > 0
            /\ pos = {} => r.confidence.num = 0
            /\ pos # {} => r.confidence.num * Cardinality(pos)
                              = TotalOf(f_arg.engine.data, pos) * r.confidence.den
            /\ 0 <= r.confidence.num /\ r.confidence.num <= 100 * r.confidence.den
            /\ r.word_count >= 0

\* tokens without a positive confidence next to one with 100: the mean is 100
C16_Witness ==
    /\ f_name = "_ocr_single_pass" /\ f_ret # None
    /\ Len(f_arg.engine.data) = 3
    /\ Cardinality(PositiveTokens(f_arg.engine.data)) = 1
    /\ ConfEq(Get(f_ret).confidence, [num |-> 100, den |-> 1])

\* C17: for every angle of the minimum-area rectangle in [-90,90] the
\* correction angle of _deskew_image is within [-45,45] degrees; below 0.5
\* degrees, or without foreground pixels, the image is returned unchanged,
\* otherwise it is rotated about its centre by the correction angle.
C17_DeskewWithin45 ==
    f_name = "_deskew_image" =>
        LET out == Get(f_ret)
        IN  /\ f_arg.image.angle = None => out = f_arg.image
            /\ f_arg.image.angle # None =>
                 \/ out = f_arg.image
                 \/ /\ Len(out.ops) = 1 /\ out.ops[1].op = "rotate"
                    /\ -450 <= out.ops[1].by /\ out.ops[1].by <= 450
                    /\ Abs(out.ops[1].by) >= 5

\* C18: for a raster of width w >= 1 and height h >= 1 _resize_image
\* returns its input when 750 <= w <= 3000 and otherwise a raster of width
\* 1500 and height floor(1500*h/w), which is strictly positive; applied to
\* its own output it changes nothing.
C18_ResizeToTargetWidth ==
    f_name = "_resize_image" =>
        LET img == f_arg.image
            out == Get(f_ret).once
        IN  /\ ~out.exc
            /\ (750 <= img.width /\ img.width <= 3000) => out.val = Some(img)
            /\ (img.width < 750 \/ img.width > 3000) =>
                 /\ Get(out.val).width = 1500
                 /\ Get(out.val).height = (1500 * img.height) \div img.width
                 /\ Get(out.val).height > 0
            /\ Get(f_ret).twice = out

\* the nutriments map of the product, empty when the product has none
NutrimentsOf(product) == IF product.nutriments.t = "dict" THEN product.nutriments.m ELSE << >>

\* C19: calories.value of the barcode mapper is the value under
\* energy-kcal_100g whenever that key is present, 0 included, and otherwise
\* the value under energy-kcal; calories.found holds iff one of the two keys
\* is present; the per-serving value is kept as a secondary field.
C19_Per100gThenBareEnergy ==
    (f_name = "_extract_product_data" /\ ~Get(f_ret).exc) =>
        LET n == NutrimentsOf(f_arg.product)
            c == Get(Get(f_ret).val).calories
        IN  /\ "energy-kcal_100g" \in DOMAIN n => c.value = Some(n["energy-kcal_100g"])
            /\ ("energy-kcal_100g" \notin DOMAIN n /\ "energy-kcal" \in DOMAIN n)
                  => c.value = Some(n["energy-kcal"])
            /\ c.found <=> ({"energy-kcal_100g", "energy-kcal"} \cap DOMAIN n # {})
            /\ c.value_serving = NutGet(n, "energy-kcal_serving")

\* the product carries the default and the localized ingredients text, both non-empty
BothIngredientTexts(product) ==
    TruthyText(product.ingredients_text) /\ TruthyText(product.ingredients_text_tr)

\* C20: when a product carries both the default free-text ingredients field
\* and its localized variant, both non-empty, the ingredient list and the
\* raw text are built from the localized variant.
C20_LocalizedIngredientsPreferred ==
    (f_name = "_extract_product_data" /\ ~Get(f_ret).exc /\ BothIngredientTexts(f_arg.product)) =>
        LET r == Get(Get(f_ret).val).ingredients
        IN  /\ r.raw = f_arg.product.ingredients_text_tr
            /\ r.list = SplitIngredients(Get(f_arg.product.ingredients_text_tr))

\* C20 as amended: the ingredient list and the raw text are built from the
\* default field ingredients_text whenever it is non-empty, also when the
\* localized variant ingredients_text_tr is present; the localized variant
\* is used only when the default is absent or empty.
C20_DefaultIngredientsPreferred ==
    (f_name = "_extract_product_data" /\ ~Get(f_ret).exc) =>
        LET r == Get(Get(f_ret).val).ingredients
            default == f_arg.product.ingredients_text
            localized == f_arg.product.ingredients_text_tr
        IN  /\ TruthyText(default) =>
                 r.raw = default /\ r.list = SplitIngredients(Get(default)) /\ r.found
            /\ (~TruthyText(default) /\ TruthyText(localized)) =>
                 r.raw = localized /\ r.list = SplitIngredients(Get(localized)) /\ r.found

\* both texts are there and differ, and the record holds the default one
C20_Witness ==
    /\ f_name = "_extract_product_data" /\ ~Get(f_ret).exc
    /\ BothIngredientTexts(f_arg.product)
    /\ f_arg.product.ingredients_text # f_arg.product.ingredients_text_tr
    /\ Get(Get(f_ret).val).ingredients.raw = f_arg.product.ingredients_text

\* the locale prefixes of the tags of the database
LocalePrefixes == {"en:", "tr:"}

\* C21: for every tag '<locale>:<name>' of allergens_tags the emitted
\* allergen is <name> with every hyphen replaced by a space: no emitted
\* allergen holds a locale prefix or a hyphen, and the list keeps the order
\* and the length of the tags.
C21_LocalePrefixStripped ==
    (f_name = "_extract_product_data" /\ ~Get(f_ret).exc
        /\ f_arg.product.allergens_tags.t = "list") =>
        LET tags == f_arg.product.allergens_tags.l
            list == Get(Get(f_ret).val).allergens.list
        IN  /\ Len(list) = Len(tags)
            /\ \A k \in 1..Len(tags) :
                 Head(tags[k]) \in LocalePrefixes =>
                    /\ list[k] = Replace(Tail(tags[k]), "-", <<" ">>)
                    /\ Range(list[k]) \cap (LocalePrefixes \cup {"-"}) = {}

\* the deductions of the conditions that hold of a raster, one per condition
Deductions(img) ==
    (IF img.brightness < 40 \/ img.brightness > 215 THEN <<30>> ELSE <<>>)
    \o (IF img.blur < 100 THEN <<40>> ELSE <<>>)
    \o (IF img.contrast < 30 THEN <<20>> ELSE <<>>)
    \o (IF img.width < 800 THEN <<10>> ELSE <<>>)

\* C22: the issues list holds one string per deduction condition that holds
\* (brightness outside [40,215], blur < 100, contrast < 30, width < 800), the
\* score is max(0, 100 - the sum of their deductions), and the score is 100
\* if and only if the issues list is empty, which is when suitable is true.
C22_OneIssuePerDeduction ==
    q_report # None =>
        LET img == Get(q_image)
            rep == Get(q_report)
        IN  /\ Len(rep.issues) = Len(Deductions(img))
            /\ rep.quality_score = Max(0, 100 - Sum(Deductions(img)))
            /\ (rep.quality_score = 100) <=> (rep.issues = <<>>)
            /\ rep.suitable <=> (rep.issues = <<>>)

\* C23: every candidate of preprocess_multiple_methods is computed from the
\* raster after the resize: for an input whose width is outside [750,3000]
\* all candidates of the returned dictionary have width 1500 and the same
\* height; inverted is the bitwise complement of the standard candidate.
C23_CandidatesFromResizedRaster ==
    (f_name = "preprocess_multiple_methods" /\ ~Get(f_ret).out.exc) =>
        LET res == Get(Get(f_ret).out.val)
            class == Get(f_ret).class
            standard == IF class = "Advanced" THEN "Advanced.standard" ELSE "ImageProcessor.standard"
            inverted == IF class = "Advanced" THEN "Advanced.inverted" ELSE "ImageProcessor.inverted"
        IN  /\ (f_arg.image.width < 750 \/ f_arg.image.width > 3000) =>
                 \A r \in DOMAIN res :
                    /\ res[r].width = target_width
                    /\ res[r].height = res[standard].height
            /\ res[inverted] = Applied(res[standard], "bitwise_not")

\* the modes that did not fail and whose average confidence is positive
PositiveModes(runs) ==
    {i \in DOMAIN runs : /\ runs[i].data = "ok"
                         /\ runs[i].string # "error"
                         /\ ConfLess([num |-> 0, den |-> 1], AvgConf(runs[i]))}

\* the first of the modes with the highest average confidence
FirstBestMode(runs) ==
    CHOOSE i \in PositiveModes(runs) :
        \A j \in PositiveModes(runs) :
            /\ ~ConfLess(AvgConf(runs[i]), AvgConf(runs[j]))
            /\ ConfEq(AvgConf(runs[i]), AvgConf(runs[j])) => i <= j

\* C24: extract_with_best_psm never raises, whatever its five mode runs do:
\* it returns the text of the first mode, in the order 6, 3, 4, 11, 12, with
\* the highest positive average confidence, and the empty string when every
\* mode fails or none has a positive average confidence.
C24_BestPsmNeverRaises ==
    f_name = "extract_with_best_psm" =>
        LET runs == f_arg.runs
            out == Get(f_ret)
        IN  /\ ~out.exc
            /\ PositiveModes(runs) = {} => out.val = Some(<<>>)
            /\ PositiveModes(runs) # {} =>
                 out.val = Some(PsmText(runs[FirstBestMode(runs)], psm_modes[FirstBestMode(runs)]))

\* C25: for every text the ingredients field of the field extractor has
\* found true exactly when its list is non-empty, every token of the list is
\* trimmed and non-empty, and found false comes with an empty list and no
\* raw text; the allergens field has found true exactly when its list is
\* non-empty, and its list holds no allergen twice.
C25_FoundIffListNonEmpty ==
    f_name = "extract_food_data" =>
        LET ing == Get(f_ret).ingredients
            alg == Get(f_ret).allergens
        IN  /\ ing.found <=> (ing.list # <<>>)
            /\ \A k \in 1..Len(ing.list) : ing.list[k] # <<>> /\ Strip(ing.list[k]) = ing.list[k]
            /\ ~ing.found => (ing.list = <<>> /\ ing.raw = None)
            /\ alg.found <=> (alg.list # <<>>)
            /\ \A i, j \in 1..Len(alg.list) : alg.list[i] = alg.list[j] => i = j

====
